---- MODULE Spec2Model ----
(***************************************************************************)
(* ris-rs: RIS Live JSON messages (src/src/parse.rs) turned into BGP       *)
(* updates (BGPUpdate::from_message, src/src/lib.rs) and printed in a      *)
(* fixed-column text form (impl Display for BGPUpdate).                    *)
(*                                                                         *)
(* Text is a sequence of one-character strings, so that parsing and        *)
(* formatting are computed character by character.  A Rust panic (a failed *)
(* unwrap) is the outcome [tag |-> "Panic", line |-> n], n the source line *)
(* of the unwrap; a library Result/Option is [ok |-> TRUE, val |-> v] or   *)
(* [ok |-> FALSE].                                                         *)
(***************************************************************************)
EXTENDS Integers, Sequences, FiniteSets, TLC

(***************************************************************************)
(* Bounds of the model.                                                    *)
(***************************************************************************)
MaxPath == 2          \* elements of an AS path
MaxEntries == 2       \* entries of an announcements list
MaxWithdrawals == 2   \* prefixes of a withdrawals list
MaxLines == 2         \* lines of the input file in the stream runs

(***************************************************************************)
(* Options and results of the libraries.                                   *)
(***************************************************************************)
None == [some |-> FALSE]
Some(v) == [some |-> TRUE, val |-> v]
Err == [ok |-> FALSE]
Ok(v) == [ok |-> TRUE, val |-> v]

(***************************************************************************)
(* Characters and numbers.                                                 *)
(***************************************************************************)
DecDigits == <<"0", "1", "2", "3", "4", "5", "6", "7", "8", "9">>
HexDigits == DecDigits \o <<"a", "b", "c", "d", "e", "f">>
UpperHex == <<"A", "B", "C", "D", "E", "F">>

IsDec(c) == \E i \in 1..10 : DecDigits[i] = c
DecVal(c) == (CHOOSE i \in 1..10 : DecDigits[i] = c) - 1
IsHex(c) == (\E i \in 1..16 : HexDigits[i] = c) \/ (\E i \in 1..6 : UpperHex[i] = c)
HexVal(c) ==
    IF \E i \in 1..16 : HexDigits[i] = c
    THEN (CHOOSE i \in 1..16 : HexDigits[i] = c) - 1
    ELSE (CHOOSE i \in 1..6 : UpperHex[i] = c) + 9

(***************************************************************************)
(* A u32 is kept as two 16-bit halves, [hi |-> h, lo |-> l] standing for   *)
(* h * 65536 + l, so that the whole 32-bit range is exact.                 *)
(***************************************************************************)
Half == 65536
U32(h, l) == [hi |-> h, lo |-> l]

\* One step of from_str_radix: checked_mul by 10, then checked_add of d.
MulAdd10(acc, d) ==
    LET l == acc.val.lo * 10 + d
        h == acc.val.hi * 10 + (l \div Half)
    IN  IF ~acc.ok \/ h >= Half THEN Err ELSE Ok(U32(h, l % Half))

RECURSIVE DecimalValue(_, _)
DecimalValue(s, acc) ==
    IF s = <<>> \/ ~acc.ok THEN acc
    ELSE DecimalValue(Tail(s), MulAdd10(acc, DecVal(Head(s))))

\* u32::from_str_radix(src, 10): an optional leading "+", then one or more
\* decimal digits, the value within 32 bits.
U32FromStrRadix(src) ==
    LET digits == IF src # <<>> /\ Head(src) = "+" THEN Tail(src) ELSE src
    IN  IF digits = <<>> THEN Err
        ELSE IF \E i \in 1..Len(digits) : ~IsDec(digits[i]) THEN Err
        ELSE DecimalValue(digits, Ok(U32(0, 0)))

\* u32::to_string: the decimal digits, no sign, no leading zero.
RECURSIVE U32ToString(_)
U32ToString(n) ==
    LET l == (n.hi % 10) * Half + n.lo
        q == U32(n.hi \div 10, l \div 10)
    IN  IF n.hi = 0 /\ n.lo < 10 THEN <<DecDigits[n.lo + 1]>>
        ELSE U32ToString(q) \o <<DecDigits[(l % 10) + 1]>>

\* The value of a short run of digits (an octet, a prefix length, a group).
RECURSIVE DigitsValue(_, _, _)
DigitsValue(s, radix, acc) ==
    IF s = <<>> THEN acc
    ELSE DigitsValue(Tail(s), radix,
                     acc * radix + (IF radix = 10 THEN DecVal(Head(s)) ELSE HexVal(Head(s))))

\* u8/u16 to_string.
RECURSIVE DecToString(_)
DecToString(n) ==
    IF n < 10 THEN <<DecDigits[n + 1]>>
    ELSE DecToString(n \div 10) \o <<DecDigits[(n % 10) + 1]>>

\* Lower-case hexadecimal without leading zeros ({:x}).
RECURSIVE HexToString(_)
HexToString(n) ==
    IF n < 16 THEN <<HexDigits[n + 1]>>
    ELSE HexToString(n \div 16) \o <<HexDigits[(n % 16) + 1]>>

RECURSIVE Spaces(_)
Spaces(n) == IF n <= 0 THEN <<>> ELSE <<" ">> \o Spaces(n - 1)

\* format!("{:>w}", s): s right-aligned in at least w columns, never cut.
PadLeft(s, w) == Spaces(w - Len(s)) \o s

\* PadRight, were the width also a limit: a longer s cut to w columns.
PadRight_Truncating(s, w) == SubSeq(s \o Spaces(w - Len(s)), 1, w)

\* format!("{:<w}", s): s left-aligned in at least w columns, never cut.
PadRight(s, w) == s \o Spaces(w - Len(s))

\* The pieces of s between occurrences of the separator.
RECURSIVE SplitAcc(_, _, _)
SplitAcc(s, sep, cur) ==
    IF s = <<>> THEN <<cur>>
    ELSE IF Head(s) = sep THEN <<cur>> \o SplitAcc(Tail(s), sep, <<>>)
    ELSE SplitAcc(Tail(s), sep, Append(cur, Head(s)))

Split(s, sep) == SplitAcc(s, sep, <<>>)

\* itertools::join: the pieces with the separator between them.
RECURSIVE Join(_, _)
Join(parts, sep) ==
    IF parts = <<>> THEN <<>>
    ELSE IF Len(parts) = 1 THEN parts[1]
    ELSE parts[1] \o sep \o Join(Tail(parts), sep)

(***************************************************************************)
(* IP addresses and networks: str::parse::<IpAddr>(), str::parse::<IpNet>()*)
(* and their to_string().  An address is [v |-> 4, octets |-> <<a,b,c,d>>] *)
(* or [v |-> 6, groups |-> <<g1..g8>>]; a network is [addr, len].  The     *)
(* network keeps the address as written (no truncation to the mask).       *)
(***************************************************************************)
AllDec(s) == \A i \in 1..Len(s) : IsDec(s[i])
AllHex(s) == \A i \in 1..Len(s) : IsHex(s[i])

\* One to three decimal digits with a value below 256.
IsOctet(s) == Len(s) \in 1..3 /\ AllDec(s) /\ DigitsValue(s, 10, 0) < 256

\* One to four hexadecimal digits.
IsGroup(s) == Len(s) \in 1..4 /\ AllHex(s)

OrElse(a, b) == IF a.ok THEN a ELSE b

\* Four octets separated by ".".
Ipv4Of(parts) ==
    IF Len(parts) = 4 /\ \A i \in 1..4 : IsOctet(parts[i])
    THEN Ok([v |-> 4, octets |-> [i \in 1..4 |-> DigitsValue(parts[i], 10, 0)]])
    ELSE Err

ParseIpv4(s) == Ipv4Of(Split(s, "."))

\* The two 16-bit groups of a dotted IPv4 address.
V4Groups(a) ==
    IF a.ok
    THEN Ok(<<a.val.octets[1] * 256 + a.val.octets[2], a.val.octets[3] * 256 + a.val.octets[4]>>)
    ELSE Err

Cons(x, rest) == IF rest.ok THEN Ok(<<x>> \o rest.val) ELSE Err

\* The 16-bit groups written by a run of ":"-separated pieces; when v4 is
\* allowed the last piece may be a dotted IPv4 address (two groups).  Err
\* if a piece is bad.
RECURSIVE GroupsOf(_, _)
GroupsOf(parts, v4) ==
    IF parts = <<>> THEN Ok(<<>>)
    ELSE IF v4 /\ Len(parts) = 1 /\ \E i \in 1..Len(parts[1]) : parts[1][i] = "."
    THEN V4Groups(ParseIpv4(parts[1]))
    ELSE IF ~IsGroup(parts[1]) THEN Err
    ELSE Cons(DigitsValue(parts[1], 16, 0), GroupsOf(Tail(parts), v4))

GroupsOfText(t, v4) == IF t = <<>> THEN Ok(<<>>) ELSE GroupsOf(Split(t, ":"), v4)

\* The places where s has "::".
DoubleColons(s) == {i \in 1..(Len(s) - 1) : s[i] = ":" /\ s[i + 1] = ":"}

\* The address with the groups hd before "::" and tl after it; without a
\* "::" all eight groups must be written.
Ipv6From(hd, tl, compressed) ==
    IF hd.ok /\ tl.ok
       /\ (IF compressed THEN Len(hd.val) + Len(tl.val) <= 7 ELSE Len(tl.val) = 8)
    THEN Ok([v |-> 6,
             groups |-> hd.val \o [k \in 1..(8 - Len(hd.val) - Len(tl.val)) |-> 0] \o tl.val])
    ELSE Err

Ipv6At(s, dc) ==
    IF dc = {} THEN Ipv6From(Ok(<<>>), GroupsOfText(s, TRUE), FALSE)
    ELSE IF Cardinality(dc) > 1 THEN Err
    ELSE Ipv6From(GroupsOfText(SubSeq(s, 1, (CHOOSE j \in dc : TRUE) - 1), FALSE),
                  GroupsOfText(SubSeq(s, (CHOOSE j \in dc : TRUE) + 2, Len(s)), TRUE),
                  TRUE)

ParseIpv6(s) == Ipv6At(s, DoubleColons(s))

\* str::parse::<IpAddr>(): an IPv4 address, else an IPv6 address.
ParseIpAddr(s) == OrElse(ParseIpv4(s), ParseIpv6(s))

\* address "/" prefix length, the length at most 32 for IPv4 and at most
\* 128 for IPv6.
NetWith(a, parts) ==
    IF Len(parts) = 2 /\ a.ok
       /\ Len(parts[2]) \in 1..(IF a.val.v = 4 THEN 2 ELSE 3)
       /\ AllDec(parts[2])
       /\ DigitsValue(parts[2], 10, 0) <= (IF a.val.v = 4 THEN 32 ELSE 128)
    THEN Ok([addr |-> a.val, len |-> DigitsValue(parts[2], 10, 0)])
    ELSE Err

NetOf(parts) == NetWith(ParseIpAddr(parts[1]), parts)

\* str::parse::<IpNet>()
ParseIpNet(s) == NetOf(Split(s, "/"))

\* The length of the run of zero groups that starts at group i.
RECURSIVE ZeroRun(_, _)
ZeroRun(g, i) == IF i > Len(g) \/ g[i] # 0 THEN 0 ELSE 1 + ZeroRun(g, i + 1)

Ipv4ToString(o) ==
    Join([i \in 1..4 |-> DecToString(o[i])], <<".">>)

HexGroups(g) == Join([i \in 1..Len(g) |-> HexToString(g[i])], <<":">>)

\* Display for Ipv6Addr: an IPv4-mapped address as ::ffff:a.b.c.d; else the
\* first longest run of two or more zero groups written "::".
Ipv6ToString(g) ==
    LET longest == CHOOSE i \in 1..8 :
                       /\ \A j \in 1..8 : ZeroRun(g, j) <= ZeroRun(g, i)
                       /\ \A j \in 1..(i - 1) : ZeroRun(g, j) < ZeroRun(g, i)
        n == ZeroRun(g, longest)
    IN  IF SubSeq(g, 1, 6) = <<0, 0, 0, 0, 0, 65535>>
        THEN <<":", ":", "f", "f", "f", "f", ":">>
             \o Ipv4ToString(<<g[7] \div 256, g[7] % 256, g[8] \div 256, g[8] % 256>>)
        ELSE IF n > 1
        THEN HexGroups(SubSeq(g, 1, longest - 1)) \o <<":", ":">>
             \o HexGroups(SubSeq(g, longest + n, 8))
        ELSE HexGroups(g)

IpAddrToString(a) == IF a.v = 4 THEN Ipv4ToString(a.octets) ELSE Ipv6ToString(a.groups)

\* IpNet::to_string: the address, "/", the prefix length.
IpNetToString(n) == IpAddrToString(n.addr) \o <<"/">> \o DecToString(n.len)

(***************************************************************************)
(* src/src/parse.rs: the JSON shapes.  A packet as received is a record of *)
(* its JSON keys: ptype is the outer "type", mtype the inner one, and the  *)
(* five optional keys of an UPDATE are options.  The keys peer, id and     *)
(* host are strings that nothing reads; they are left out.                 *)
(***************************************************************************)
RISAnnouncement(path, community, origin, announcements) ==
    [path |-> path, community |-> community, origin |-> origin,
     announcements |-> announcements]

AnnouncementEntry(next_hop, prefixes) == [next_hop |-> next_hop, prefixes |-> prefixes]

RISMessageType(announce, withdrawals) ==
    [tag |-> "UPDATE", announce |-> announce, withdrawals |-> withdrawals]

RISMessage(timestamp, peer_asn, ty) ==
    [timestamp |-> timestamp, peer_asn |-> peer_asn, ty |-> ty]

\* serde_json::from_str::<RISPacket>: the outer tag must be "ris_message"
\* and the inner tag "UPDATE" (the only variants); peer_asn is taken as the
\* string it is, whatever it holds; every optional key may be absent.
Decode(raw) ==
    IF raw.ptype # "ris_message" THEN Err
    ELSE IF raw.mtype # "UPDATE" THEN Err
    ELSE Ok(RISMessage(raw.timestamp, raw.peer_asn,
                       RISMessageType(RISAnnouncement(raw.path, raw.community, raw.origin,
                                                      raw.announcements),
                                      raw.withdrawals)))

(***************************************************************************)
(* src/src/lib.rs: BGPUpdate::from_message.                                *)
(***************************************************************************)
Panic(n) == [tag |-> "Panic", line |-> n]
Returned(v) == [tag |-> "Some", val |-> v]

AnnouncementVector(next_hop, prefixes) == [next_hop |-> next_hop, prefixes |-> prefixes]

Announce(path, vectors) == [tag |-> "Announce", path |-> path, vectors |-> vectors]
Withdraw(prefixes) == [tag |-> "Withdraw", prefixes |-> prefixes]

BGPUpdate(timestamp, asn, kind) == [timestamp |-> timestamp, asn |-> asn, kind |-> kind]

\* iter().map(|s| s.parse()): the parse of every string, in order.
ParseEach(w) == [i \in 1..Len(w) |-> ParseIpNet(w[i])]

\* The parses of an entry's strings.
ParseEntry(e) == [next_hop |-> ParseIpAddr(e.next_hop), prefixes |-> ParseEach(e.prefixes)]

ParseEntries(a) == [i \in 1..Len(a) |-> ParseEntry(a[i])]

AllOk(rs) == \A i \in 1..Len(rs) : rs[i].ok

\* .map(|s| s.parse().unwrap()).collect(): the values, in order.
Unwrapped(rs) == [i \in 1..Len(rs) |-> rs[i].val]

EntryOk(pe) == pe.next_hop.ok /\ AllOk(pe.prefixes)

\* Vectors, were the entries collected last first.
Vectors_Reversed(pes) ==
    [i \in 1..Len(pes) |->
        AnnouncementVector(pes[Len(pes) + 1 - i].next_hop.val,
                           Unwrapped(pes[Len(pes) + 1 - i].prefixes))]

\* a.iter().map(|e| AnnouncementVector {..}).collect(): one vector per
\* entry, in order.
Vectors(pes) ==
    [i \in 1..Len(pes) |-> AnnouncementVector(pes[i].next_hop.val, Unwrapped(pes[i].prefixes))]

\* The unwrap that fails first while the vectors are built: entries in
\* order, and within an entry the next_hop (line 101) before the prefixes
\* (line 103).
VectorsPanicLine(pes) ==
    LET i == CHOOSE j \in 1..Len(pes) : ~EntryOk(pes[j]) /\ \A k \in 1..(j - 1) : EntryOk(pes[k])
    IN  IF pes[i].next_hop.ok THEN 103 ELSE 101

\* The announcement half (lines 95-121), nothing when path is absent; asn
\* is the parse of peer_asn, pes the parses of the announcement entries.
AnnouncePart(msg, asn, pes) ==
    IF ~msg.ty.announce.path.some THEN Returned(<<>>)
    ELSE IF ~msg.ty.announce.announcements.some THEN Panic(96)
    ELSE IF \E j \in 1..Len(pes) : ~EntryOk(pes[j]) THEN Panic(VectorsPanicLine(pes))
    ELSE IF ~asn.ok THEN Panic(109)
    ELSE Returned(<<BGPUpdate(msg.timestamp, asn.val,
                              Announce(msg.ty.announce.path.val, Vectors(pes)))>>)

\* s without the elements that occurred before in it.
RECURSIVE WithoutDuplicates(_)
WithoutDuplicates(s) ==
    IF s = <<>> THEN <<>>
    ELSE LET front == WithoutDuplicates(SubSeq(s, 1, Len(s) - 1))
         IN  IF \E i \in 1..(Len(s) - 1) : s[i] = s[Len(s)] THEN front
             ELSE Append(front, s[Len(s)])

\* WithdrawPart, were the prefixes collected into a set-like list.
WithdrawPart_Deduplicating(msg, asn, pws) ==
    IF ~msg.ty.withdrawals.some THEN Returned(<<>>)
    ELSE IF ~asn.ok THEN Panic(125)
    ELSE IF ~AllOk(pws) THEN Panic(127)
    ELSE Returned(<<BGPUpdate(msg.timestamp, asn.val,
                              Withdraw(WithoutDuplicates(Unwrapped(pws))))>>)

\* The withdrawal half (lines 122-131), nothing when withdrawals is absent;
\* pws is the parses of the withdrawn prefixes.
WithdrawPart(msg, asn, pws) ==
    IF ~msg.ty.withdrawals.some THEN Returned(<<>>)
    ELSE IF ~asn.ok THEN Panic(125)
    ELSE IF ~AllOk(pws) THEN Panic(127)
    ELSE Returned(<<BGPUpdate(msg.timestamp, asn.val, Withdraw(Unwrapped(pws)))>>)

\* Both, were the withdrawal pushed before the announcement.
Both_WithdrawFirst(a, w) ==
    IF a.tag = "Panic" THEN a
    ELSE IF w.tag = "Panic" THEN w
    ELSE Returned(w.val \o a.val)

\* The announcement first, then the withdrawal; Some(res) unless an unwrap
\* panicked on the way.
Both(a, w) ==
    IF a.tag = "Panic" THEN a
    ELSE IF w.tag = "Panic" THEN w
    ELSE Returned(a.val \o w.val)

OrEmpty(o) == IF o.some THEN o.val ELSE <<>>

\* BGPUpdate::from_message
FromMessage(msg) ==
    Both(AnnouncePart(msg, U32FromStrRadix(msg.peer_asn),
                      ParseEntries(OrEmpty(msg.ty.announce.announcements))),
         WithdrawPart(msg, U32FromStrRadix(msg.peer_asn),
                      ParseEach(OrEmpty(msg.ty.withdrawals))))

(***************************************************************************)
(* src/src/lib.rs: impl Display for BGPUpdate.  The text written is the    *)
(* sequence of its lines (each ended by writeln!).                         *)
(***************************************************************************)
\* path.iter().map(|x| format!("{:<6}", x.to_string())).join(" ")
PathText(path) ==
    Join([i \in 1..Len(path) |-> PadRight(U32ToString(path[i]), 6)], <<" ">>)

\* format!("{:>6}|A {:<20}|{}", asn, prefix, path)
AnnounceLine(asn, p, path) ==
    PadLeft(U32ToString(asn), 6) \o <<"|", "A", " ">>
    \o PadRight(IpNetToString(p), 20) \o <<"|">> \o PathText(path)

\* format!("{:>6}|W {:<20}", asn, prefix)
WithdrawLine(asn, prefix) ==
    PadLeft(U32ToString(asn), 6) \o <<"|", "W", " ">> \o PadRight(IpNetToString(prefix), 20)

\* AnnounceLines, were only the first vector printed.
AnnounceLines_FirstVectorOnly(asn, path, vectors) ==
    IF vectors = <<>> THEN <<>>
    ELSE [i \in 1..Len(vectors[1].prefixes) |->
             AnnounceLine(asn, vectors[1].prefixes[i], path)]

\* for v in vectors { for p in &v.prefixes { writeln!(..) } }
RECURSIVE AnnounceLines(_, _, _)
AnnounceLines(asn, path, vectors) ==
    IF vectors = <<>> THEN <<>>
    ELSE [i \in 1..Len(vectors[1].prefixes) |->
             AnnounceLine(asn, vectors[1].prefixes[i], path)]
         \o AnnounceLines(asn, path, Tail(vectors))

Fmt(update) ==
    IF update.kind.tag = "Announce"
    THEN AnnounceLines(update.asn, update.kind.path, update.kind.vectors)
    ELSE [i \in 1..Len(update.kind.prefixes) |->
             WithdrawLine(update.asn, update.kind.prefixes[i])]

(***************************************************************************)
(* The input texts.                                                        *)
(***************************************************************************)
Hop4 == <<"2", ".", "2", ".", "2", ".", "2">>   \* "2.2.2.2"
Hop6 == <<"2", "0", "0", "1", ":", "d", "b", "8", ":", ":", "1">>   \* "2001:db8::1"
BadHop == <<"n", "o", "t", "-", "a", "n", "-", "i", "p">>   \* "not-an-ip"
Pfx4 == <<"1", "0", ".", "0", ".", "0", ".", "0", "/", "2", "4">>   \* "10.0.0.0/24"
Pfx4b == <<"1", "9", "2", ".", "0", ".", "2", ".", "1", "2", "8", "/", "2", "5">>   \* "192.0.2.128/25"
Pfx6 == <<"2", "0", "0", "1", ":", "d", "b", "8", ":", "1", "2", "3", "4", ":", "5", "6", "7", "8", ":", ":", "/", "6", "4">>   \* "2001:db8:1234:5678::/64"
BadPfx == <<"1", "0", ".", "0", ".", "0", ".", "0">>   \* "10.0.0.0"
Asn2 == <<"6", "5", "0", "0", "0">>   \* "65000"
Asn4 == <<"4", "2", "0", "0", "0", "0", "0", "0", "0", "1">>   \* "4200000001"
AsnPlus == <<"+", "6", "5", "0", "0", "0">>   \* "+65000"
AsnAlpha == <<"A", "S", "6", "5", "0", "0", "0">>   \* "AS65000"
AsnBig == <<"4", "2", "9", "4", "9", "6", "7", "2", "9", "6">>   \* "4294967296"
AsnEmpty == <<>>   \* ""

PrefixTexts == {Pfx4, Pfx6, BadPfx}
AsnTexts == {Asn2, Asn4, AsnPlus, AsnAlpha, AsnBig, AsnEmpty}

\* AS numbers of a path: 65001 and 4200000001.
PathAsns == {U32(0, 65001), U32(64086, 59905)}

\* The sequences over S of length at most n.
SeqsUpTo(S, n) == UNION {[1..k -> S] : k \in 0..n}

Optional(S) == {None} \cup {Some(x) : x \in S}

\* Entries of an announcements list: two that parse, one with a bad
\* next_hop, one with a bad prefix after a good one.
EntryOk1 == AnnouncementEntry(Hop4, <<Pfx4>>)
EntryOk2 == AnnouncementEntry(Hop6, <<Pfx6, Pfx4b>>)
EntryBadHop == AnnouncementEntry(BadHop, <<Pfx4>>)
EntryBadPfx == AnnouncementEntry(Hop4, <<Pfx4, BadPfx>>)
EntrySamples == {EntryOk1, EntryOk2, EntryBadHop, EntryBadPfx}

Community == <<<<65001, 100>>>>
Origin == <<"i", "g", "p">>

Packet(path, community, origin, announcements, withdrawals, peer_asn) ==
    [ptype |-> "ris_message", mtype |-> "UPDATE", timestamp |-> 1, peer_asn |-> peer_asn,
     path |-> path, community |-> community, origin |-> origin,
     announcements |-> announcements, withdrawals |-> withdrawals]

\* Which keys are present: every combination of the five optional keys,
\* with every peer_asn text.
PresencePackets ==
    {Packet(path, community, origin, announcements, withdrawals, peer_asn) :
        path \in Optional({<<U32(0, 65001)>>}),
        community \in Optional({Community}),
        origin \in Optional({Origin}),
        announcements \in Optional({<<>>, <<EntryOk1>>}),
        withdrawals \in Optional({<<>>, <<Pfx4>>}),
        peer_asn \in AsnTexts}

\* What the lists hold: every announcements list and every withdrawals list
\* within the bounds, with and without a path.
ContentPackets ==
    {Packet(path, None, None, announcements, withdrawals, peer_asn) :
        path \in Optional({<<U32(0, 65001), U32(64086, 59905)>>}),
        announcements \in Optional(SeqsUpTo(EntrySamples, MaxEntries)),
        withdrawals \in Optional(SeqsUpTo(PrefixTexts, MaxWithdrawals)),
        peer_asn \in {Asn2, Asn4}}

\* What the path holds: every path within the bound.
PathPackets ==
    {Packet(Some(path), None, Some(Origin), Some(announcements), None, peer_asn) :
        path \in SeqsUpTo(PathAsns, MaxPath),
        announcements \in {<<EntryOk1>>, <<EntryOk2>>},
        peer_asn \in {Asn2, Asn4}}

\* Packets that are no UPDATE message.
OtherPackets ==
    {[Packet(None, None, None, None, None, Asn2) EXCEPT !.ptype = "ris_error"],
     [Packet(None, None, None, None, None, Asn2) EXCEPT !.mtype = "KEEPALIVE"]}

Packets == PresencePackets \cup ContentPackets \cup PathPackets \cup OtherPackets

\* The lines of the file in the stream runs: good ones, and one of each
\* kind of bad one.
StreamPackets ==
    {Packet(Some(<<U32(0, 65001)>>), None, None, Some(<<EntryOk1>>), None, Asn2),
     Packet(None, None, None, None, Some(<<Pfx4, Pfx4>>), Asn4),
     Packet(Some(<<U32(0, 65001)>>), None, None, None, None, Asn2),
     Packet(Some(<<U32(0, 65001)>>), None, None, Some(<<EntryBadHop>>), None, Asn2),
     Packet(None, None, None, None, Some(<<BadPfx>>), Asn2),
     Packet(None, None, None, None, Some(<<Pfx4>>), AsnAlpha)}

(***************************************************************************)
(* tests::it_works of src/src/lib.rs (lines 170-190): every line of the    *)
(* file is decoded and turned into updates, which are collected in res;    *)
(* then every update is printed.  A panic ends the run.                    *)
(***************************************************************************)
VARIABLES
    file,      \* the lines of test-json.txt
    pos,       \* lines read so far
    pc,        \* "loop", "message", "print", "done" or "panicked"
    m,         \* the message decoded from the last line read
    p,         \* what from_message gave for m: not yet run, Some(..) or a panic
    res,       \* Vec<BGPUpdate>
    printed,   \* updates printed so far
    out        \* what was printed, one sequence of lines for each print!

vars == <<file, pos, pc, m, p, res, printed, out>>

NotRun == [tag |-> "NotRun"]

InitWith(f) ==
    /\ file = f
    /\ pos = 0
    /\ pc = "loop"
    /\ m = None
    /\ p = NotRun
    /\ res = <<>>
    /\ printed = 0
    /\ out = <<>>

\* One message.
Init == \E raw \in Packets : InitWith(<<raw>>)

\* A file of up to MaxLines lines.
InitStream == \E f \in SeqsUpTo(StreamPackets, MaxLines) : InitWith(f)

\* Lines 178-181: the next line is read and decoded; unwrap panics on a
\* decoding error.
ReadLine ==
    /\ pc = "loop"
    /\ pos < Len(file)
    /\ LET x == Decode(file[pos + 1])
       IN  /\ pos' = pos + 1
           /\ p' = NotRun
           /\ IF x.ok
              THEN m' = Some(x.val) /\ pc' = "message"
              ELSE m' = None /\ pc' = "panicked"
    /\ UNCHANGED <<file, res, printed, out>>

\* Lines 182-184: from_message, its updates appended to res.
DeriveUpdates ==
    /\ pc = "message"
    /\ p' = FromMessage(m.val)
    /\ IF p'.tag = "Some"
       THEN res' = res \o p'.val /\ pc' = "loop"
       ELSE res' = res /\ pc' = "panicked"
    /\ UNCHANGED <<file, pos, m, printed, out>>

\* Line 187: the file is at its end; the printing loop starts.
EndOfFile ==
    /\ pc = "loop"
    /\ pos = Len(file)
    /\ pc' = "print"
    /\ UNCHANGED <<file, pos, m, p, res, printed, out>>

\* Line 188: print!("{}", update) for the next update of res.
PrintUpdate ==
    /\ pc = "print"
    /\ printed < Len(res)
    /\ out' = Append(out, Fmt(res[printed + 1]))
    /\ printed' = printed + 1
    /\ UNCHANGED <<file, pos, pc, m, p, res>>

\* Line 190: the test returns.
Finish ==
    /\ pc = "print"
    /\ printed = Len(res)
    /\ pc' = "done"
    /\ UNCHANGED <<file, pos, m, p, res, printed, out>>

Next == ReadLine \/ DeriveUpdates \/ EndOfFile \/ PrintUpdate \/ Finish

Spec == Init /\ [][Next]_vars

SpecStream == InitStream /\ [][Next]_vars

(***************************************************************************)
(* The properties: what they speak of.                                     *)
(***************************************************************************)
\* from_message has run on the message m.
Ran == p.tag # "NotRun"

InPath == m.val.ty.announce.path
InCommunity == m.val.ty.announce.community
InOrigin == m.val.ty.announce.origin
InAnnouncements == m.val.ty.announce.announcements
InWithdrawals == m.val.ty.withdrawals

\* A string of decimal digits that is a 32-bit number.
DecimalAsn(t) == t # <<>> /\ AllDec(t) /\ U32FromStrRadix(t).ok

BadEntry(e) ==
    \/ ~ParseIpAddr(e.next_hop).ok
    \/ \E i \in 1..Len(e.prefixes) : ~ParseIpNet(e.prefixes[i]).ok

BadPrefixIn(w) == \E i \in 1..Len(w) : ~ParseIpNet(w[i]).ok

\* A valid UPDATE: peer_asn is a decimal AS number; without a path there is
\* no community, origin or announcements; with a path there is a non-empty
\* announcements list; every address and prefix parses.
ValidEnvelope ==
    /\ DecimalAsn(m.val.peer_asn)
    /\ ~InPath.some => ~InCommunity.some /\ ~InOrigin.some /\ ~InAnnouncements.some
    /\ InPath.some =>
          /\ InAnnouncements.some
          /\ InAnnouncements.val # <<>>
          /\ \A i \in 1..Len(InAnnouncements.val) : ~BadEntry(InAnnouncements.val[i])
    /\ InWithdrawals.some => ~BadPrefixIn(InWithdrawals.val)

IsError(r, e) == r.tag = "Err" /\ r.err = e

\* The updates a line yields when it is processed alone (none when it is
\* rejected).
AloneEvents(raw) ==
    IF Decode(raw).ok /\ FromMessage(Decode(raw).val).tag = "Some"
    THEN FromMessage(Decode(raw).val).val
    ELSE <<>>

RECURSIVE AllAloneEvents(_)
AllAloneEvents(f) ==
    IF f = <<>> THEN <<>> ELSE AloneEvents(Head(f)) \o AllAloneEvents(Tail(f))

\* C1: a malformed line is an error value for that line only: the run never
\* ends in a panic, and when it is over res holds, for every line in order,
\* the updates that line yields alone.
C1_MalformedLineIsErrorValue ==
    /\ pc # "panicked"
    /\ pc = "done" => res = AllAloneEvents(file)

\* C2: with the path absent and any of community, origin or announcements
\* present, from_message fails with InconsistentAnnouncement.
C2_InconsistentAnnouncement ==
    (Ran /\ ~InPath.some /\ (InCommunity.some \/ InOrigin.some \/ InAnnouncements.some))
        => IsError(p, "InconsistentAnnouncement")

\* C3: with the path present and the announcements list absent or empty,
\* from_message fails with the error value MissingAnnouncementEntries.
C3_MissingAnnouncementEntries ==
    (Ran /\ InPath.some /\ (~InAnnouncements.some \/ InAnnouncements.val = <<>>))
        => IsError(p, "MissingAnnouncementEntries")

\* C4: with a next_hop that is no IP address or a prefix that is no CIDR
\* network among the announcement entries or the withdrawals, from_message
\* fails with an InvalidAddress error value.
C4_InvalidAddress ==
    (Ran /\ \/ (InAnnouncements.some
                /\ \E i \in 1..Len(InAnnouncements.val) : BadEntry(InAnnouncements.val[i]))
            \/ (InWithdrawals.some /\ BadPrefixIn(InWithdrawals.val)))
        => IsError(p, "InvalidAddress")

\* C5: for a valid UPDATE the updates follow from which keys are present:
\* one Announce exactly when path is present, one Withdraw exactly when
\* withdrawals is present, the Announce first, never more than two, and
\* none (a success) when both are absent.
C5_EventsFollowPresence ==
    (Ran /\ ValidEnvelope) =>
        /\ p.tag = "Some"
        /\ Len(p.val) = (IF InPath.some THEN 1 ELSE 0) + (IF InWithdrawals.some THEN 1 ELSE 0)
        /\ Len(p.val) <= 2
        /\ InPath.some => p.val[1].kind.tag = "Announce"
        /\ InWithdrawals.some => p.val[Len(p.val)].kind.tag = "Withdraw"

C5_Witness ==
    /\ Ran /\ ValidEnvelope /\ InPath.some /\ InWithdrawals.some
    /\ p.tag = "Some" /\ Len(p.val) = 2

\* C6: for a valid UPDATE with a path and a non-empty announcements list,
\* the Announce has the path as given, element for element, and one vector
\* for each entry, the i-th vector holding the parse of the i-th entry's
\* next_hop and of its prefixes in their order.
C6_AnnouncePreservesPathAndEntries ==
    (Ran /\ ValidEnvelope /\ InPath.some) =>
        /\ p.tag = "Some"
        /\ p.val[1].kind.tag = "Announce"
        /\ p.val[1].kind.path = InPath.val
        /\ Len(p.val[1].kind.vectors) = Len(InAnnouncements.val)
        /\ \A i \in 1..Len(InAnnouncements.val) :
              /\ p.val[1].kind.vectors[i].next_hop
                     = ParseIpAddr(InAnnouncements.val[i].next_hop).val
              /\ Len(p.val[1].kind.vectors[i].prefixes) = Len(InAnnouncements.val[i].prefixes)
              /\ \A j \in 1..Len(InAnnouncements.val[i].prefixes) :
                     p.val[1].kind.vectors[i].prefixes[j]
                         = ParseIpNet(InAnnouncements.val[i].prefixes[j]).val

C6_Witness ==
    /\ Ran /\ ValidEnvelope /\ InPath.some /\ p.tag = "Some"
    /\ Len(InPath.val) = 2 /\ InPath.val[1] # InPath.val[2]
    /\ Len(InAnnouncements.val) = 2
    /\ InAnnouncements.val[1] # InAnnouncements.val[2]
    /\ Len(p.val[1].kind.vectors) = 2

\* C7: for a valid UPDATE with a withdrawals list, the one Withdraw has as
\* many prefixes as the list has strings, the i-th the parse of the i-th
\* string: nothing reordered, no duplicate removed.
C7_WithdrawPreservesList ==
    (Ran /\ ValidEnvelope /\ InWithdrawals.some) =>
        /\ p.tag = "Some"
        /\ Cardinality({k \in 1..Len(p.val) : p.val[k].kind.tag = "Withdraw"}) = 1
        /\ LET w == p.val[Len(p.val)].kind
           IN  /\ w.tag = "Withdraw"
               /\ Len(w.prefixes) = Len(InWithdrawals.val)
               /\ \A i \in 1..Len(InWithdrawals.val) :
                      w.prefixes[i] = ParseIpNet(InWithdrawals.val[i]).val

C7_Witness ==
    /\ Ran /\ ValidEnvelope /\ InWithdrawals.some /\ p.tag = "Some"
    /\ Len(InWithdrawals.val) = 2
    /\ InWithdrawals.val[1] = InWithdrawals.val[2]
    /\ Len(p.val[Len(p.val)].kind.prefixes) = 2

(***************************************************************************)
(* The printed lines.                                                      *)
(***************************************************************************)
Max(a, b) == IF a > b THEN a ELSE b

AllSpaces(s) == \A i \in 1..Len(s) : s[i] = " "

\* field is s with spaces before it, w wide or as wide as s if s is wider.
RightAligned(field, s, w) ==
    /\ Len(field) = Max(w, Len(s))
    /\ SubSeq(field, Len(field) - Len(s) + 1, Len(field)) = s
    /\ AllSpaces(SubSeq(field, 1, Len(field) - Len(s)))

\* field is s with spaces after it, w wide or as wide as s if s is wider.
LeftAligned(field, s, w) ==
    /\ Len(field) = Max(w, Len(s))
    /\ SubSeq(field, 1, Len(s)) = s
    /\ AllSpaces(SubSeq(field, Len(s) + 1, Len(field)))

\* rest is the path: each element left-aligned in at least 6 columns, one
\* space between two elements.
RECURSIVE PathColumns(_, _)
PathColumns(rest, path) ==
    IF path = <<>> THEN rest = <<>>
    ELSE LET e == U32ToString(path[1])
             w == Max(6, Len(e))
         IN  /\ Len(rest) >= w
             /\ LeftAligned(SubSeq(rest, 1, w), e, 6)
             /\ IF Len(path) = 1 THEN Len(rest) = w
                ELSE /\ Len(rest) > w
                     /\ rest[w + 1] = " "
                     /\ PathColumns(SubSeq(rest, w + 2, Len(rest)), Tail(path))

\* line is the Announce line of asn, prefix and path, every field at least
\* as wide as its width and as wide as its text.
AnnounceLayout(line, asn, prefix, path) ==
    LET a == U32ToString(asn)
        t == IpNetToString(prefix)
        wa == Max(6, Len(a))
        wt == Max(20, Len(t))
    IN  /\ Len(line) >= wa + wt + 4
        /\ RightAligned(SubSeq(line, 1, wa), a, 6)
        /\ SubSeq(line, wa + 1, wa + 3) = <<"|", "A", " ">>
        /\ LeftAligned(SubSeq(line, wa + 4, wa + wt + 3), t, 20)
        /\ line[wa + wt + 4] = "|"
        /\ PathColumns(SubSeq(line, wa + wt + 5, Len(line)), path)
        /\ (Len(a) <= 6 /\ Len(t) <= 20) => line[7] = "|" /\ line[30] = "|"

\* The updates printed so far that are announcements.
PrintedAnnounces == {k \in 1..printed : res[k].kind.tag = "Announce"}

RECURSIVE FlatPrefixes(_)
FlatPrefixes(vectors) ==
    IF vectors = <<>> THEN <<>> ELSE vectors[1].prefixes \o FlatPrefixes(Tail(vectors))

PrefixesOf(update) ==
    IF update.kind.tag = "Announce" THEN FlatPrefixes(update.kind.vectors)
    ELSE update.kind.prefixes

\* line has the letter of the kind and the text of the prefix in the
\* column after the ASN.
LineIsFor(line, update, prefix) ==
    LET wa == Max(6, Len(U32ToString(update.asn)))
        t == IpNetToString(prefix)
    IN  /\ Len(line) >= wa + 3 + Len(t)
        /\ line[wa + 2] = (IF update.kind.tag = "Announce" THEN "A" ELSE "W")
        /\ SubSeq(line, wa + 4, wa + 3 + Len(t)) = t

\* C9: printing an update writes one line for each of its prefixes: for an
\* Announce vector by vector and within a vector prefix by prefix, for a
\* Withdraw prefix by prefix; no prefixes, no lines.
C9_OneLinePerPrefix ==
    \A k \in 1..printed :
        /\ Len(out[k]) = Len(PrefixesOf(res[k]))
        /\ \A j \in 1..Len(out[k]) : LineIsFor(out[k][j], res[k], PrefixesOf(res[k])[j])

C9_Witness ==
    \E k \in 1..printed :
        /\ res[k].kind.tag = "Announce"
        /\ Len(res[k].kind.vectors) = 2
        /\ Len(res[k].kind.vectors[1].prefixes) = 2
        /\ Len(res[k].kind.vectors[2].prefixes) = 1
        /\ res[k].kind.vectors[1].prefixes[1] # res[k].kind.vectors[1].prefixes[2]
        /\ Len(out[k]) = 3

\* C10: a peer_asn that is not a string of decimal digits within 32 bits
\* is refused when the packet is decoded, whatever else the packet holds:
\* no message that was decoded has such a peer_asn.
C10_InvalidAsnRefusedAtDecode ==
    m.some => DecimalAsn(m.val.peer_asn)

====
